---- MODULE Spec2Model ----
(***************************************************************************)
(* Model of backend/app.py: the FastAPI relay in front of a locally        *)
(* hosted Ollama container.  The handlers (/ollama/status, /ollama/start,  *)
(* /ollama/pull_model, /upload, /chat) are the actions; the docker         *)
(* container, the model registry inside it and the uploads directory are   *)
(* the state they act on.                                                  *)
(*                                                                         *)
(* A Python str is modelled as the sequence of its runs (a character and   *)
(* how many times it repeats), so that len(), slicing, strip(), lower()    *)
(* and endswith() are computed, also on strings of thousands of characters.*)
(* An Optional[str] is a record [has, val].                                *)
(***************************************************************************)
EXTENDS Integers, Sequences, FiniteSets, TLC

VARIABLES
    container,    \* docker state of the container named ollama_server
    modelPulled,  \* whether the running container lists MODEL_NAME in /api/tags
    fs,           \* the filesystem: path |-> name of the file body stored there
    uploads,      \* file_id |-> original filename, for every id /upload returned
    op,           \* the handler whose response is in flight ("idle" when none)
    req,          \* the ChatRequest of the call in flight
    resp,         \* the response of the call in flight
    trace,        \* the external operations the call performed, in order
    sent,         \* the payloads the call posted to OLLAMA_URL, in order
    frame         \* the locals of chat() when it returned

vars == <<container, modelPulled, fs, uploads, op, req, resp, trace, sent, frame>>

----------------------------------------------------------------------------
(* Bounds of the model. *)

\* at most this many uploads are performed
MaxUploads == 1
\* long prompts run from max_prompt_length up to max_prompt_length + MaxOver characters
MaxOver == 1

----------------------------------------------------------------------------
(* Strings. *)

None == [has |-> FALSE, val |-> <<>>]
Some(s) == [has |-> TRUE, val |-> s]

\* a run of n >= 1 copies of the character c
Run(c, n) == [c |-> c, n |-> n]

\* c * n
Rep(c, n) == IF n = 0 THEN <<>> ELSE <<Run(c, n)>>

\* the number of characters in runs i..j of s
RECURSIVE RunsLen(_, _, _)
RunsLen(s, i, j) ==
    IF i > j THEN 0
    ELSE IF i = j THEN s[i].n
    ELSE RunsLen(s, i, (i + j) \div 2) + RunsLen(s, (i + j) \div 2 + 1, j)

\* len(s)
StrLen(s) == RunsLen(s, 1, Len(s))

\* a + b; the runs that meet are merged when they are of one character, so that
\* equal strings are equal values
Cat(a, b) ==
    IF a = <<>> THEN b
    ELSE IF b = <<>> THEN a
    ELSE IF a[Len(a)].c = b[1].c
    THEN SubSeq(a, 1, Len(a) - 1) \o <<Run(b[1].c, a[Len(a)].n + b[1].n)>> \o Tail(b)
    ELSE a \o b

\* the string made of runs i..j, adjacent runs of one character merged
RECURSIVE Canon(_, _, _)
Canon(runs, i, j) ==
    IF i > j THEN <<>>
    ELSE IF i = j THEN <<runs[i]>>
    ELSE Cat(Canon(runs, i, (i + j) \div 2), Canon(runs, (i + j) \div 2 + 1, j))

\* the string of a sequence of characters
Str(chars) == Canon([i \in 1..Len(chars) |-> Run(chars[i], 1)], 1, Len(chars))

\* the first k characters of runs i..j of s
RECURSIVE PrefixOf(_, _, _, _)
PrefixOf(s, i, j, k) ==
    IF k <= 0 \/ i > j THEN <<>>
    ELSE IF i = j THEN <<Run(s[i].c, IF k < s[i].n THEN k ELSE s[i].n)>>
    ELSE IF k <= RunsLen(s, i, (i + j) \div 2)
    THEN PrefixOf(s, i, (i + j) \div 2, k)
    ELSE SubSeq(s, i, (i + j) \div 2)
            \o PrefixOf(s, (i + j) \div 2 + 1, j, k - RunsLen(s, i, (i + j) \div 2))

\* s[:k]
Prefix(s, k) == PrefixOf(s, 1, Len(s), k)

\* runs i..j of s without their first k characters
RECURSIVE DropOf(_, _, _, _)
DropOf(s, i, j, k) ==
    IF i > j THEN <<>>
    ELSE IF k <= 0 THEN SubSeq(s, i, j)
    ELSE IF i = j THEN (IF k < s[i].n THEN <<Run(s[i].c, s[i].n - k)>> ELSE <<>>)
    ELSE IF k < RunsLen(s, i, (i + j) \div 2)
    THEN DropOf(s, i, (i + j) \div 2, k) \o SubSeq(s, (i + j) \div 2 + 1, j)
    ELSE DropOf(s, (i + j) \div 2 + 1, j, k - RunsLen(s, i, (i + j) \div 2))

\* s[k:]
Drop(s, k) == DropOf(s, 1, Len(s), k)

Whitespace == {" ", "\n", "\t", "\r"}

\* not s.strip()
Blank(s) == \A i \in 1..Len(s) : s[i].c \in Whitespace

\* x or ""   and   bool(x) for an Optional[str]
OrEmpty(x) == IF x.has THEN x.val ELSE <<>>
Truthy(x) == x.has /\ x.val # <<>>

UpperCase == <<"A","B","C","D","E","F","G","H","I","J","K","L","M",
               "N","O","P","Q","R","S","T","U","V","W","X","Y","Z">>
LowerCase == <<"a","b","c","d","e","f","g","h","i","j","k","l","m",
               "n","o","p","q","r","s","t","u","v","w","x","y","z">>

lower_char(c) ==
    IF \E k \in 1..Len(UpperCase) : UpperCase[k] = c
    THEN LowerCase[CHOOSE k \in 1..Len(UpperCase) : UpperCase[k] = c]
    ELSE c

\* s.lower()
lower(s) == Canon([i \in 1..Len(s) |-> Run(lower_char(s[i].c), s[i].n)], 1, Len(s))

endswith(s, suffix) ==
    /\ StrLen(s) >= StrLen(suffix)
    /\ Drop(s, StrLen(s) - StrLen(suffix)) = suffix

startswith(s, prefix) == Prefix(s, StrLen(prefix)) = prefix

----------------------------------------------------------------------------
(* String literals of app.py. *)

UPLOAD_DIR == Str(<<"u","p","l","o","a","d","s">>)
PDF_SUFFIX == Str(<<".","p","d","f">>)
DOC_PREFIX ==
    Str(<<"T","h","e"," ","u","s","e","r"," ","h","a","s"," ","u","p","l","o","a","d","e","d"," ",
      "a"," ","d","o","c","u","m","e","n","t","."," ","D","o","c","u","m","e","n","t"," ",
      "c","o","n","t","e","n","t",":","\n">>)
USER_MSG_SEP == Str(<<"\n","\n","U","s","e","r"," ","m","e","s","s","a","g","e",":"," ">>)
ANALYZE_DOC_SUFFIX ==
    Str(<<"\n","\n","P","l","e","a","s","e"," ","a","n","a","l","y","z","e"," ","t","h","i","s"," ",
      "d","o","c","u","m","e","n","t",".">>)
IMG_PREFIX ==
    Str(<<"T","h","e"," ","u","s","e","r"," ","h","a","s"," ","u","p","l","o","a","d","e","d"," ",
      "a"," ","d","o","c","u","m","e","n","t"," ","i","m","a","g","e","."," ",
      "U","s","e","r"," ","m","e","s","s","a","g","e",":"," ">>)
IMG_ONLY ==
    Str(<<"T","h","e"," ","u","s","e","r"," ","h","a","s"," ","u","p","l","o","a","d","e","d"," ",
      "a"," ","d","o","c","u","m","e","n","t"," ","i","m","a","g","e","."," ",
      "P","l","e","a","s","e"," ","a","n","a","l","y","z","e"," ","t","h","e"," ",
      "d","o","c","u","m","e","n","t"," ","c","o","n","t","e","n","t",".">>)
TRUNC_MARKER ==
    Str(<<".",".","."," ","[","P","r","o","m","p","t"," ","t","r","u","n","c","a","t","e","d","]">>)
TITLE_PREFIX ==
    Str(<<"D","o","c","u","m","e","n","t"," ","m","e","t","a","d","a","t","a"," ",
      "t","i","t","l","e",":"," ">>)
UNKNOWN == Str(<<"U","n","k","n","o","w","n">>)

max_prompt_length == 4000
MAX_FILE_BYTES == 10 * 1024 * 1024
RESOLUTION == 300

UUID_BASE ==
    <<"3","f","2","b","8","c","1","e","-","7","a","4","d","-","4","e","9","b","-",
      "9","c","6","f","-","0","d","5","a","1","b","2","c","3","e","4","0">>
HexDigits == <<"0","1","2","3","4","5","6","7","8","9","a","b","c","d","e","f">>

\* str(uuid.uuid4()): 36 characters, hexadecimal digits and dashes
UUID(i) == Str(SubSeq(UUID_BASE, 1, Len(UUID_BASE) - 1) \o <<HexDigits[i]>>)
UUIDs == {UUID(i) : i \in 1..MaxUploads}

----------------------------------------------------------------------------
(* File bodies.  A body is what the bytes of a file are to the program:    *)
(* their number (os.path.getsize), the text that reading them as UTF-8     *)
(* with errors="ignore" gives, and what pdfplumber makes of them.          *)

TXT_HELLO == Str(<<"h","e","l","l","o"," ","w","o","r","l","d">>)
TXT_BLANK == Str(<<" ","\n"," ">>)
TXT_PDF_BYTES == Str(<<"%","P","D","F","-","1",".","4">>)
TXT_DATA == Str(<<"d","a","t","a">>)
PAGE_ONE == Str(<<"P","a","g","e"," ","o","n","e">>)
PAGE_TWO == Str(<<"t","w","o">>)
TITLE_SCAN == Str(<<"S","c","a","n">>)

NotPdf == [pdf_ok |-> FALSE, pages |-> <<>>, title |-> None, raster_ok |-> FALSE]
Pdf(pages, title, raster_ok) ==
    [pdf_ok |-> TRUE, pages |-> pages, title |-> title, raster_ok |-> raster_ok]
File(size, readable, text, pdf) ==
    [size |-> size, readable |-> readable, text |-> text, pdf |-> pdf]

BodyNames ==
    {"hello_txt", "blank_txt", "unreadable", "at_cap", "over_cap",
     "pdf_text", "pdf_scan_titled", "pdf_scan_untitled", "pdf_scan_blank_title",
     "pdf_scan_noraster", "pdf_nopages", "pdf_at_cap", "pdf_over_cap"}

Body(b) ==
    CASE b = "hello_txt"  -> File(11, TRUE, TXT_HELLO, NotPdf)
      [] b = "blank_txt"  -> File(3, TRUE, TXT_BLANK, NotPdf)
      [] b = "unreadable" -> File(11, FALSE, TXT_HELLO, NotPdf)
      [] b = "at_cap"     -> File(MAX_FILE_BYTES, TRUE, TXT_DATA, NotPdf)
      [] b = "over_cap"   -> File(MAX_FILE_BYTES + 1, TRUE, TXT_DATA, NotPdf)
      [] b = "pdf_text"   ->
            File(2048, TRUE, TXT_PDF_BYTES, Pdf(<<PAGE_ONE, <<>>, PAGE_TWO>>, Some(TITLE_SCAN), TRUE))
      [] b = "pdf_scan_titled" ->
            File(4096, TRUE, TXT_PDF_BYTES, Pdf(<<<<>>, Rep(" ", 1)>>, Some(TITLE_SCAN), TRUE))
      [] b = "pdf_scan_untitled" ->
            File(4096, TRUE, TXT_PDF_BYTES, Pdf(<<<<>>>>, None, TRUE))
      [] b = "pdf_scan_blank_title" ->
            File(4096, TRUE, TXT_PDF_BYTES, Pdf(<<Rep("\n", 2)>>, Some(<<>>), TRUE))
      [] b = "pdf_scan_noraster" ->
            File(4096, TRUE, TXT_PDF_BYTES, Pdf(<<<<>>>>, None, FALSE))
      [] b = "pdf_nopages" ->
            File(1024, TRUE, TXT_PDF_BYTES, Pdf(<<>>, None, TRUE))
      [] b = "pdf_at_cap" ->
            File(MAX_FILE_BYTES, TRUE, TXT_PDF_BYTES, Pdf(<<PAGE_ONE>>, None, TRUE))
      [] b = "pdf_over_cap" ->
            File(MAX_FILE_BYTES + 1, TRUE, TXT_PDF_BYTES, Pdf(<<PAGE_ONE>>, None, TRUE))

\* names under uploads/ that something other than /upload may have put there,
\* and the one file the directory holds when the service starts
NAME_LOWER_PDF == Str(<<"r",".","p","d","f">>)
NAME_UPPER_PDF == Str(<<"S",".","P","D","F">>)
NAME_NOTES == Str(<<"n","o","t","e","s">>)
PreNames == {NAME_LOWER_PDF, NAME_UPPER_PDF, NAME_NOTES}
PreFiles ==
    {<<NAME_LOWER_PDF, b>> : b \in {"pdf_text", "pdf_scan_titled", "pdf_scan_untitled",
                                    "pdf_scan_blank_title", "pdf_scan_noraster", "pdf_nopages",
                                    "pdf_at_cap", "pdf_over_cap", "hello_txt"}}
        \cup {<<NAME_UPPER_PDF, "pdf_scan_titled">>}
        \cup {<<NAME_NOTES, b>> : b \in {"blank_txt", "unreadable", "at_cap", "over_cap", "pdf_text"}}

\* what a client may upload: original filename and body
FN_NOTES == Str(<<"n","o","t","e","s",".","t","x","t">>)
FN_SCAN == Str(<<"s","c","a","n",".","p","d","f">>)
UploadInputs ==
    {<<FN_NOTES, "hello_txt">>, <<FN_SCAN, "pdf_scan_titled">>}

----------------------------------------------------------------------------
(* Docker and the model registry. *)

ContainerStates == {"absent", "running", "exited"}

\* docker ps --filter name=ollama_server lists the container only while it runs
is_ollama_running(c) == c = "running"

\* docker ps -a ...; docker rm of a container that is Exited, Created or Dead.
\* rm_ok is whether docker rm succeeds (its failure is not looked at).
remove_stopped_ollama_container(c, rm_ok) ==
    IF c = "exited"
    THEN [container |-> IF rm_ok THEN "absent" ELSE c, trace |-> <<"docker_ps_a", "docker_rm">>]
    ELSE [container |-> c, trace |-> <<"docker_ps_a">>]

\* docker run -d --name ollama_server ...: the name must be free; the run brings
\* the container up, leaves it Created without starting it, or creates nothing.
\* The exit status of docker run is not looked at.
LaunchOutcomes == {"up", "created", "none"}

docker_run(c, launch) ==
    IF c # "absent" THEN c
    ELSE IF launch = "up" THEN "running"
    ELSE IF launch = "created" THEN "exited"
    ELSE "absent"

start_ollama_container(c, rm_ok, launch) ==
    IF ~is_ollama_running(c)
    THEN LET rm == remove_stopped_ollama_container(c, rm_ok)
         IN  [ret |-> TRUE,
              container |-> docker_run(rm.container, launch),
              trace |-> <<"docker_ps">> \o rm.trace \o <<"docker_run">>]
    ELSE [ret |-> FALSE, container |-> c, trace |-> <<"docker_ps">>]

\* GET /api/tags answers only while the container runs; any exception is False
is_model_available(c, m) == c = "running" /\ m

\* POST /api/pull: True unless the request raises
pull_model(c, pull_ok) == c = "running" /\ pull_ok

----------------------------------------------------------------------------
(* Responses. *)

Error(status, msg) == [status |-> status, error |-> msg, response |-> <<>>]
Ok(text) == [status |-> 200, error |-> "", response |-> text]

E_NOT_RUNNING == "Ollama container not running"
E_MODEL == "Model granite3.2:2b not available"
E_NOT_FOUND == "File not found"
E_TOO_LARGE == "File too large"
E_PDF == "Failed to process PDF"
E_READ == "Failed to read file"
E_EMPTY_FILE == "No text or image could be extracted from the file"
E_NO_CONTENT == "No prompt, file, or manual text provided."
E_HTTP == "Ollama API error"
E_CONNECT == "Failed to connect to Ollama"

MODEL_NAME == "granite3.2:2b"
GEN_TEXT == Str(<<"o","k">>)

NoReq == [prompt |-> None, file_id |-> None, manual_text |-> None]
NoResp == [status |-> 0]
NoFrame == [file_content |-> <<>>, images |-> <<>>, composed |-> None, gen |-> "none"]

----------------------------------------------------------------------------
(* chat(): lines 120-226. *)

\* lines 122-125: the two readiness checks
readiness_probe_both(c, m) ==
    LET running == is_ollama_running(c)
        model == is_model_available(c, m)
    IN  IF ~running
        THEN [ok |-> FALSE, resp |-> Error(400, E_NOT_RUNNING), trace |-> <<"docker_ps", "get_tags">>]
        ELSE IF ~model
        THEN [ok |-> FALSE, resp |-> Error(400, E_MODEL), trace |-> <<"docker_ps", "get_tags">>]
        ELSE [ok |-> TRUE, resp |-> NoResp, trace |-> <<"docker_ps", "get_tags">>]

readiness(c, m) ==
    IF ~is_ollama_running(c)
    THEN [ok |-> FALSE, resp |-> Error(400, E_NOT_RUNNING), trace |-> <<"docker_ps">>]
    ELSE IF ~is_model_available(c, m)
    THEN [ok |-> FALSE, resp |-> Error(400, E_MODEL), trace |-> <<"docker_ps", "get_tags">>]
    ELSE [ok |-> TRUE, resp |-> NoResp, trace |-> <<"docker_ps", "get_tags">>]

\* line 132: request.manual_text and request.manual_text.strip()
manual_unless_file(request) ==
    /\ Truthy(request.manual_text)
    /\ ~Blank(request.manual_text.val)
    /\ ~Truthy(request.file_id)

manual_override(request) ==
    /\ Truthy(request.manual_text)
    /\ ~Blank(request.manual_text.val)

\* line 138: os.path.join(UPLOAD_DIR, file_id); an absolute file_id replaces the directory
path_join(dir, name) ==
    IF startswith(name, Rep("/", 1)) THEN name ELSE Cat(dir, Cat(Rep("/", 1), name))

\* line 141
too_large_100(size) == size > 100 * 1024 * 1024

too_large(size) == size > MAX_FILE_BYTES

\* line 144
is_pdf_path(file_path) == endswith(lower(file_path), PDF_SUFFIX)

\* lines 148-152: the text layer, page by page
RECURSIVE extracted_text(_)
extracted_text(pages) ==
    IF pages = <<>> THEN <<>>
    ELSE LET text == Head(pages)
         IN  Cat(IF text # <<>> THEN Cat(text, Rep("\n", 1)) ELSE <<>>,
                 extracted_text(Tail(pages)))

\* lines 158-163: page.to_image(resolution=300), saved as PNG, base64-encoded
page_image(b, page_no) ==
    [base64 |-> [format |-> "PNG", resolution |-> RESOLUTION, body |-> b, page |-> page_no]]

all_page_images(b, pages) == [i \in 1..Len(pages) |-> page_image(b, i)]

fallback_images(b, pages) == <<page_image(b, 1)>>

\* lines 166-169
no_fallback_content(title) == <<>>

fallback_content(title) ==
    Cat(TITLE_PREFIX, IF OrEmpty(title) # <<>> THEN OrEmpty(title) ELSE UNKNOWN)

Extracted(file_content, images, tr) ==
    [err |-> NoResp, file_content |-> file_content, images |-> images, trace |-> tr]
Failed(resp_, tr) ==
    [err |-> resp_, file_content |-> <<>>, images |-> <<>>, trace |-> tr]

\* lines 153-169: the text layer if it is not blank, else the first page as an image
pdf_result(b, pdf, text, tr) ==
    IF ~Blank(text) THEN Extracted(text, <<>>, tr)
    ELSE IF Len(pdf.pages) = 0 THEN Failed(Error(400, E_PDF), tr)
    ELSE IF ~pdf.raster_ok THEN Failed(Error(400, E_PDF), tr \o <<"to_image">>)
    ELSE Extracted(fallback_content(pdf.title), fallback_images(b, pdf.pages),
                   tr \o <<"to_image", "metadata">>)

\* lines 145-172; any exception is the PDF-processing error
extract_pdf(b, pdf) ==
    IF ~pdf.pdf_ok THEN Failed(Error(400, E_PDF), <<"pdfplumber.open">>)
    ELSE pdf_result(b, pdf, extracted_text(pdf.pages),
                    <<"pdfplumber.open">> \o [i \in 1..Len(pdf.pages) |-> "extract_text"])

\* lines 175-181
read_text_file(file) ==
    IF ~file.readable THEN Failed(Error(400, E_READ), <<"open_read">>)
    ELSE Extracted(file.text, <<>>, <<"open_read">>)

\* lines 170-172, 179-185: an extraction error, or nothing extracted, ends the call
check_extracted(ex, tr) ==
    IF ex.err # NoResp THEN Failed(ex.err, tr \o ex.trace)
    ELSE IF Blank(ex.file_content) /\ ex.images = <<>>
    THEN Failed(Error(400, E_EMPTY_FILE), tr \o ex.trace)
    ELSE Extracted(ex.file_content, ex.images, tr \o ex.trace)

\* lines 141-185, for a file that exists
ingest_file(file_path, b, file) ==
    IF too_large(file.size)
    THEN Failed(Error(400, E_TOO_LARGE), <<"exists", "getsize">>)
    ELSE check_extracted(IF is_pdf_path(file_path)
                         THEN extract_pdf(b, file.pdf)
                         ELSE read_text_file(file),
                         <<"exists", "getsize">>)

\* lines 138-140
lookup_file(file_path, fsys) ==
    IF file_path \notin DOMAIN fsys
    THEN Failed(Error(404, E_NOT_FOUND), <<"exists">>)
    ELSE ingest_file(file_path, fsys[file_path], Body(fsys[file_path]))

\* lines 131-185
ingest(request, fsys) ==
    IF manual_override(request)
    THEN Extracted(request.manual_text.val, <<>>, <<>>)
    ELSE IF Truthy(request.file_id)
    THEN lookup_file(path_join(UPLOAD_DIR, request.file_id.val), fsys)
    ELSE Extracted(<<>>, <<>>, <<>>)

\* line 187
no_content_unstripped(file_content, images, prompt) ==
    Blank(file_content) /\ images = <<>> /\ prompt = <<>>

no_content(file_content, images, prompt) ==
    Blank(file_content) /\ images = <<>> /\ Blank(prompt)

\* lines 191-200
construct_prompt(prompt, file_content, images) ==
    IF ~Blank(file_content)
    THEN IF ~Blank(prompt)
         THEN Cat(DOC_PREFIX, Cat(file_content, Cat(USER_MSG_SEP, prompt)))
         ELSE Cat(DOC_PREFIX, Cat(file_content, ANALYZE_DOC_SUFFIX))
    ELSE IF images # <<>>
    THEN IF ~Blank(prompt) THEN Cat(IMG_PREFIX, prompt) ELSE IMG_ONLY
    ELSE prompt

\* lines 203-205
no_truncation(prompt) == prompt

truncate_prompt(prompt) ==
    IF StrLen(prompt) > max_prompt_length
    THEN Cat(Prefix(prompt, max_prompt_length), TRUNC_MARKER)
    ELSE prompt

\* lines 208-213
Payload(prompt, images) ==
    [model |-> MODEL_NAME, prompt |-> prompt, images |-> images, stream |-> FALSE]

GenOutcomes == {"ok", "ok_nofield", "http_error", "conn_error"}

GenResponse(gen) ==
    CASE gen = "ok" -> Ok(GEN_TEXT)
      [] gen = "ok_nofield" -> Ok(<<>>)
      [] gen = "http_error" -> Error(500, E_HTTP)
      [] gen = "conn_error" -> Error(500, E_CONNECT)

\* lines 214-226: one requests.post, its outcome classified
post_generate_retrying(payload, gen) ==
    [resp |-> GenResponse(gen),
     sent |-> IF gen \in {"http_error", "conn_error"} THEN <<payload, payload>> ELSE <<payload>>,
     trace |-> IF gen \in {"http_error", "conn_error"}
               THEN <<"post_generate", "post_generate">> ELSE <<"post_generate">>]

post_generate(payload, gen) ==
    [resp |-> GenResponse(gen), sent |-> <<payload>>, trace |-> <<"post_generate">>]

Returned(resp_, tr, sent_, frame_) ==
    [resp |-> resp_, trace |-> tr, sent |-> sent_, frame |-> frame_]

Frame(ex, composed, gen) ==
    [file_content |-> ex.file_content, images |-> ex.images, composed |-> composed, gen |-> gen]

\* lines 208-226
chat_post(composed, ex, tr, gen, post) ==
    Returned(post.resp, tr \o post.trace, post.sent, Frame(ex, Some(composed), gen))

\* lines 187-213
chat_compose(prompt, ex, tr, gen, composed) ==
    IF ex.err # NoResp THEN Returned(ex.err, tr, <<>>, Frame(ex, None, "none"))
    ELSE IF no_content(ex.file_content, ex.images, prompt)
    THEN Returned(Error(400, E_NO_CONTENT), tr, <<>>, Frame(ex, None, "none"))
    ELSE chat_post(composed, ex, tr, gen,
                   post_generate(Payload(truncate_prompt(composed), ex.images), gen))

\* lines 127-200
chat_ingest(prompt, ready, ex, gen) ==
    IF ~ready.ok THEN Returned(ready.resp, ready.trace, <<>>, NoFrame)
    ELSE chat_compose(prompt, ex, ready.trace \o ex.trace, gen,
                      construct_prompt(prompt, ex.file_content, ex.images))

chat(request, c, m, fsys, gen) ==
    chat_ingest(OrEmpty(request.prompt), readiness(c, m), ingest(request, fsys), gen)

----------------------------------------------------------------------------
(* The other handlers. *)

\* lines 86-93
ollama_status(c, m) ==
    LET running == is_ollama_running(c)
        model_ready == IF running THEN is_model_available(c, m) ELSE FALSE
    IN  [resp |-> [status |-> 200, docker_running |-> running, model_available |-> model_ready],
         trace |-> IF running THEN <<"docker_ps", "get_tags">> ELSE <<"docker_ps">>]

\* lines 95-98
ollama_start(c, rm_ok, launch) ==
    LET st == start_ollama_container(c, rm_ok, launch)
        started == st.ret \/ is_ollama_running(st.container)
    IN  [resp |-> [status |-> 200, started |-> started],
         container |-> st.container,
         trace |-> IF st.ret THEN st.trace ELSE st.trace \o <<"docker_ps">>]

\* lines 100-105
ollama_pull_model(c, pull_ok) ==
    IF ~is_ollama_running(c)
    THEN [resp |-> Error(400, E_NOT_RUNNING), pulled |-> FALSE, trace |-> <<"docker_ps">>]
    ELSE LET pulled == pull_model(c, pull_ok)
         IN  [resp |-> [status |-> 200, pulled |-> pulled], pulled |-> pulled,
              trace |-> <<"docker_ps", "post_pull">>]

\* line 114: file_id = str(uuid.uuid4())
new_file_id_with_ext(u, filename) ==
    IF endswith(lower(filename), PDF_SUFFIX) THEN Cat(u, PDF_SUFFIX) ELSE u

new_file_id(u, filename) == u

\* lines 112-118
upload_file(u, filename, b, fsys) ==
    LET file_id == new_file_id(u, filename)
        file_path == path_join(UPLOAD_DIR, file_id)
    IN  [resp |-> [status |-> 200, file_id |-> file_id, filename |-> filename],
         fs |-> (file_path :> b) @@ fsys]

----------------------------------------------------------------------------
(* Requests a client may send. *)

TXT_HI == Str(<<"h","i">>)
TXT_ABC == Str(<<" ","a","b","c"," ">>)

Prompts ==
    {None, Some(Rep(" ", 1)), Some(TXT_HI)}
        \cup {Some(Rep("p", max_prompt_length + k)) : k \in 0..MaxOver}

ManualTexts ==
    {None, Some(Str(<<" ", "\n">>)), Some(TXT_ABC), Some(Rep("m", max_prompt_length - 60))}

FileIds ==
    {None, Some(<<>>)} \cup {Some(n) : n \in PreNames \cup DOMAIN uploads}

ChatRequests ==
    [prompt : Prompts, file_id : FileIds, manual_text : ManualTexts]

----------------------------------------------------------------------------
(* The state machine. *)

EmptyMap == [x \in {} |-> x]

Init ==
    /\ container \in ContainerStates
    /\ modelPulled \in BOOLEAN
    /\ (~modelPulled \/ container = "running")
    /\ \/ fs = EmptyMap
       \/ \E pre \in PreFiles : fs = (path_join(UPLOAD_DIR, pre[1]) :> pre[2])
    /\ uploads = EmptyMap
    /\ op = "idle"
    /\ req = NoReq
    /\ resp = NoResp
    /\ trace = <<>>
    /\ sent = <<>>
    /\ frame = NoFrame

Status ==
    /\ op = "idle"
    /\ LET r == ollama_status(container, modelPulled)
       IN  /\ op' = "status"
           /\ resp' = r.resp
           /\ trace' = r.trace
    /\ UNCHANGED <<container, modelPulled, fs, uploads, req, sent, frame>>

Start ==
    /\ op = "idle"
    /\ \E rm_ok \in BOOLEAN, launch \in LaunchOutcomes :
        LET r == ollama_start(container, rm_ok, launch)
        IN  /\ op' = "start"
            /\ resp' = r.resp
            /\ trace' = r.trace
            /\ container' = r.container
            \* a container launched now has pulled nothing yet
            /\ modelPulled' = (modelPulled /\ is_ollama_running(container))
    /\ UNCHANGED <<fs, uploads, req, sent, frame>>

PullModel ==
    /\ op = "idle"
    /\ \E pull_ok \in BOOLEAN :
        LET r == ollama_pull_model(container, pull_ok)
        IN  /\ op' = "pull_model"
            /\ resp' = r.resp
            /\ trace' = r.trace
            /\ modelPulled' = (modelPulled \/ r.pulled)
    /\ UNCHANGED <<container, fs, uploads, req, sent, frame>>

Upload ==
    /\ op = "idle"
    /\ Cardinality(DOMAIN uploads) < MaxUploads
    /\ \E u \in UUIDs, input \in UploadInputs :
        LET r == upload_file(u, input[1], input[2], fs)
        IN  /\ r.resp.file_id \notin DOMAIN uploads
            /\ op' = "upload"
            /\ resp' = r.resp
            /\ trace' = <<"write">>
            /\ fs' = r.fs
            /\ uploads' = (r.resp.file_id :> r.resp.filename) @@ uploads
    /\ UNCHANGED <<container, modelPulled, req, sent, frame>>

Chat ==
    /\ op = "idle"
    /\ \E request \in ChatRequests, gen \in GenOutcomes :
        LET r == chat(request, container, modelPulled, fs, gen)
        IN  /\ op' = "chat"
            /\ req' = request
            /\ resp' = r.resp
            /\ trace' = r.trace
            /\ sent' = r.sent
            /\ frame' = r.frame
    /\ UNCHANGED <<container, modelPulled, fs, uploads>>

\* the response reaches the client
Deliver ==
    /\ op # "idle"
    /\ op' = "idle"
    /\ req' = NoReq
    /\ resp' = NoResp
    /\ trace' = <<>>
    /\ sent' = <<>>
    /\ frame' = NoFrame
    /\ UNCHANGED <<container, modelPulled, fs, uploads>>

\* the container stops on its own (crash, docker stop)
ContainerExit ==
    /\ op = "idle"
    /\ container = "running"
    /\ container' = "exited"
    /\ modelPulled' = FALSE
    /\ UNCHANGED <<fs, uploads, op, req, resp, trace, sent, frame>>

Next ==
    \/ Status
    \/ Start
    \/ PullModel
    \/ Upload
    \/ Chat
    \/ Deliver
    \/ ContainerExit

Spec == Init /\ [][Next]_vars

----------------------------------------------------------------------------
(* What the claims speak of. *)

InTrace(e) == \E i \in 1..Len(trace) : trace[i] = e
Occurrences(e) == Cardinality({i \in 1..Len(trace) : trace[i] = e})

\* both readiness checks pass for a call made in this state
Ready == container = "running" /\ modelPulled

PromptBlank == ~req.prompt.has \/ Blank(req.prompt.val)
ManualBlank == ~req.manual_text.has \/ Blank(req.manual_text.val)
FileIdGiven == req.file_id.has /\ req.file_id.val # <<>>

\* the stored file the request names
ReqPath == Cat(UPLOAD_DIR, Cat(Rep("/", 1), req.file_id.val))
NamesStoredFile == FileIdGiven /\ ReqPath \in DOMAIN fs
ReqFile == Body(fs[ReqPath])

PdfSteps == {"pdfplumber.open", "extract_text", "to_image", "metadata"}
ExtractionSteps == PdfSteps \cup {"open_read"}
FileSteps == ExtractionSteps \cup {"exists", "getsize"}
NoStep(steps) == \A i \in 1..Len(trace) : trace[i] \notin steps

MARKER_LEN == StrLen(TRUNC_MARKER)

\* C1 (as stated): the prompt of every submitted generation request has at most
\* 4000 characters.
C1_PromptWithinCap ==
    op = "chat" => \A i \in 1..Len(sent) : StrLen(sent[i].prompt) <= 4000

\* C1 (amended): the prompt of every submitted generation request has at most
\* 4000 characters plus the 22 of the truncation marker: it is the composed prompt
\* when that has at most 4000 characters, and its first 4000 characters followed
\* by "... [Prompt truncated]" otherwise.
C1_PromptWithinCapPlusMarker ==
    op = "chat" =>
        \A i \in 1..Len(sent) :
            /\ StrLen(sent[i].prompt) <= 4000 + 22
            /\ MARKER_LEN = 22
            /\ frame.composed.has
            /\ IF StrLen(frame.composed.val) <= 4000
               THEN sent[i].prompt = frame.composed.val
               ELSE /\ Prefix(sent[i].prompt, 4000) = Prefix(frame.composed.val, 4000)
                    /\ Drop(sent[i].prompt, 4000) = TRUNC_MARKER

C1_Witness ==
    /\ op = "chat"
    /\ Len(sent) = 1
    /\ StrLen(frame.composed.val) > 4000
    /\ StrLen(sent[1].prompt) = 4022

\* C2 (as stated): a chat call that reaches the file step for a stored file of
\* 10 MiB or more, exactly 10 MiB included, answers file-too-large and extracts nothing.
C2_AtOrAboveCapRejected ==
    op = "chat" /\ Ready /\ ManualBlank /\ NamesStoredFile /\ ReqFile.size >= 10 * 1024 * 1024
        => resp = Error(400, E_TOO_LARGE) /\ NoStep(ExtractionSteps)

\* C2 (amended): for a chat request naming a stored file of more than 10 MiB no
\* extraction step is executed, and when the call reaches the file step (both
\* readiness checks pass, manual text blank) it answers file-too-large.
C2_AboveCapRejected ==
    op = "chat" /\ NamesStoredFile /\ ReqFile.size > 10 * 1024 * 1024
        => /\ NoStep(ExtractionSteps)
           /\ Ready /\ ManualBlank => resp = Error(400, E_TOO_LARGE) /\ InTrace("getsize")

C2_Witness ==
    /\ op = "chat"
    /\ NamesStoredFile
    /\ ReqFile.size = 10 * 1024 * 1024 + 1
    /\ ReqFile.pdf.pdf_ok
    /\ resp = Error(400, E_TOO_LARGE)

\* C3 (as stated): a chat request with prompt, file id and manual text all absent
\* or blank is answered with the no-content error, whatever the state of service
\* and model.
C3_NoContentAlways ==
    op = "chat" /\ PromptBlank /\ ManualBlank /\ ~FileIdGiven
        => resp = Error(400, E_NO_CONTENT)

\* C3 (amended): such a request is answered with the no-content error when both
\* readiness checks pass, and with the readiness error that comes first otherwise.
C3_NoContentWhenReady ==
    op = "chat" /\ PromptBlank /\ ManualBlank /\ ~FileIdGiven
        => /\ sent = <<>>
           /\ resp = IF container # "running" THEN Error(400, E_NOT_RUNNING)
                     ELSE IF ~modelPulled THEN Error(400, E_MODEL)
                     ELSE Error(400, E_NO_CONTENT)

C3_Witness ==
    /\ op = "chat"
    /\ req.prompt = Some(Rep(" ", 1))
    /\ req.manual_text.has /\ ManualBlank
    /\ req.file_id = Some(<<>>)
    /\ resp = Error(400, E_NO_CONTENT)

\* C4: the started flag of /ollama/start is true exactly when the service runs once
\* the call returns, and a call that finds it running removes and launches nothing.
C4_StartedIffRunning ==
    op = "start" =>
        /\ resp.started <=> container = "running"
        /\ ~InTrace("docker_run") => container = "running" /\ ~InTrace("docker_rm")

\* C5: with a non-blank manual text the file named by the request is never looked
\* up, size-checked or read, the document content is the manual text verbatim, and
\* the composed prompt is the content template: ending in "User message: P" for a
\* non-blank prompt P, in "Please analyze this document." otherwise.
C5_ManualTextWins ==
    op = "chat" /\ ~ManualBlank =>
        /\ NoStep(FileSteps)
        /\ Ready =>
            /\ frame.composed.has
            /\ frame.file_content = req.manual_text.val
            /\ frame.images = <<>>
            /\ frame.composed.val =
                  IF PromptBlank
                  THEN Cat(DOC_PREFIX, Cat(req.manual_text.val, ANALYZE_DOC_SUFFIX))
                  ELSE Cat(DOC_PREFIX, Cat(req.manual_text.val, Cat(USER_MSG_SEP, req.prompt.val)))

C5_Witness ==
    /\ op = "chat"
    /\ req.manual_text = Some(TXT_ABC)
    /\ ~PromptBlank
    /\ NamesStoredFile
    /\ ReqFile.size > 10 * 1024 * 1024
    /\ frame.composed.has
    /\ Len(sent) = 1

\* C6: readiness is checked in a fixed order: a call that finds the service not
\* running answers service-unavailable having probed neither the model nor the
\* generation endpoint; one that finds the model missing answers model-not-ready
\* without a generation call; a generation call comes only after both checks passed.
C6_ReadinessOrder ==
    op = "chat" =>
        /\ container # "running" =>
              resp = Error(400, E_NOT_RUNNING) /\ trace = <<"docker_ps">> /\ sent = <<>>
        /\ container = "running" /\ ~modelPulled =>
              resp = Error(400, E_MODEL) /\ trace = <<"docker_ps", "get_tags">> /\ sent = <<>>
        /\ E_NOT_RUNNING # E_MODEL
        /\ \A i \in 1..Len(trace) :
              trace[i] = "post_generate" =>
                  /\ Ready
                  /\ i > 2
                  /\ trace[1] = "docker_ps"
                  /\ trace[2] = "get_tags"

C6_Witness ==
    /\ op = "chat"
    /\ container = "running"
    /\ ~modelPulled
    /\ ~PromptBlank
    /\ resp = Error(400, E_MODEL)

C8_SingleSubmission ==
    op = "chat" =>
        /\ Len(sent) <= 1
        /\ Occurrences("post_generate") = Len(sent)
        /\ resp.status \in {400, 404} <=> sent = <<>>
        /\ resp.status \in {200, 500} <=> Len(sent) = 1
        /\ frame.gen \in {"http_error", "conn_error"} =>
              Len(sent) = 1 /\ resp.status = 500 /\ resp.error \in {E_HTTP, E_CONNECT}

C8_Witness ==
    /\ op = "chat"
    /\ frame.gen = "conn_error"
    /\ Len(sent) = 1
    /\ resp = Error(500, E_CONNECT)

\* C9: a chat call with a file id that /upload returned never takes the PDF
\* branch, whatever the original filename: the stored path does not end in .pdf,
\* and the file is read as plain text.
C9_UploadedNeverPdf ==
    /\ \A id \in DOMAIN uploads :
          ~endswith(lower(Cat(UPLOAD_DIR, Cat(Rep("/", 1), id))), PDF_SUFFIX)
    /\ op = "chat" /\ FileIdGiven /\ req.file_id.val \in DOMAIN uploads =>
          /\ NoStep(PdfSteps)
          /\ frame.images = <<>>
          /\ Ready /\ ManualBlank => InTrace("open_read")

C9_Witness ==
    /\ op = "chat"
    /\ FileIdGiven
    /\ req.file_id.val \in DOMAIN uploads
    /\ endswith(lower(uploads[req.file_id.val]), PDF_SUFFIX)
    /\ ReqFile.pdf.pdf_ok
    /\ InTrace("open_read")
    /\ frame.file_content = TXT_PDF_BYTES

\* C10: whenever the images of a chat call are not empty its document content is
\* not blank, so the composed prompt is a document-content template and never one of
\* the two image-only templates.
C10_ImagesComeWithText ==
    op = "chat" /\ frame.images # <<>> =>
        /\ ~Blank(frame.file_content)
        /\ frame.composed.has =>
              /\ startswith(frame.composed.val, DOC_PREFIX)
              /\ ~startswith(frame.composed.val, IMG_PREFIX)
              /\ frame.composed.val # IMG_ONLY

C10_Witness ==
    /\ op = "chat"
    /\ Len(sent) = 1
    /\ sent[1].images # <<>>
    /\ PromptBlank
    /\ frame.composed.val = Cat(DOC_PREFIX, Cat(Cat(TITLE_PREFIX, UNKNOWN), ANALYZE_DOC_SUFFIX))

====
